---- MODULE Spec2Model ----
(***************************************************************************)
(* Model of the Jupyter-backed python tool of LibreChat:                    *)
(*   api/app/clients/tools/structured/Python.js      (class Python)         *)
(*   api/app/clients/tools/util/jupyterServerUtils.js (helpers and          *)
(*                                                     class CodeInterpreter)*)
(*                                                                         *)
(* Texts (JavaScript strings) are sequences of atoms; string concatenation  *)
(* is \o.  JavaScript values that the code inspects with typeof are tagged  *)
(* records [type, val].  A path is a sequence of names, a name is a text.   *)
(***************************************************************************)
EXTENDS Integers, Sequences, FiniteSets, TLC

(***************************************************************************)
(* Bounds of the model.                                                     *)
(***************************************************************************)
\* longest event stream the kernel emits for one execution
MaxEvents == 3
\* number of invocations of one serial history (SeqSpec)
MaxRuns == 2
\* longest event stream of an execution in a serial history (SeqSpec)
MaxSeqEvents == 1
\* longest cell sequence of a document handed to addCellsToNotebook (CellSpec)
MaxCells == 2

(***************************************************************************)
(* JavaScript values.                                                       *)
(***************************************************************************)
\* type is the kind of the value; val is the text util.inspect prints for a
\* primitive and the members (between the braces of JSON.stringify) of an object
Str(s) == [type |-> "string", val |-> s]
Obj(s) == [type |-> "object", val |-> s]
Num(s) == [type |-> "number", val |-> s]
Bool(s) == [type |-> "boolean", val |-> s]
Undefined == [type |-> "undefined", val |-> <<>>]
Null == [type |-> "null", val |-> <<"null">>]
NaN == Num(<<"NaN">>)
\* the number -0: inspected as -0, converted to a string as 0
NegativeZero == Num(<<"-0">>)
False == Bool(<<"false">>)

\* an object { length: n } without indexed members
ArrayLike(n) == [type |-> "object", val |-> <<"\"length\":", ToString(n)>>, length |-> n]

\* typeof v: null is an object
TypeOf(v) == IF v.type = "null" THEN "object" ELSE v.type

\* JSON.stringify of null, or of an object whose members are written val
JSONstringify(v) == IF v.type = "null" THEN <<"null">> ELSE <<"{">> \o v.val \o <<"}">>

\* string + value: undefined is appended as the text "undefined", null as
\* "null", -0 as "0"
ToText(v) ==
  CASE v.type = "undefined" -> <<"undefined">>
    [] v.type = "object" -> <<"[object Object]">>
    [] v = NegativeZero -> <<"0">>
    [] OTHER -> v.val

\* data[mime] of a mime bundle: undefined when the key is absent
Lookup(data, mime) == IF mime \in DOMAIN data THEN data[mime] ELSE Undefined

\* Array.prototype.join
RECURSIVE Join(_, _)
Join(lines, sep) ==
  IF lines = <<>> THEN <<>>
  ELSE IF Len(lines) = 1 THEN lines[1]
  ELSE lines[1] \o sep \o Join(Tail(lines), sep)

\* !v: undefined, null, false, the empty string and the numbers 0, -0 and NaN
Falsy(v) ==
  \/ v.type \in {"undefined", "null"}
  \/ v.type = "boolean" /\ v.val = <<"false">>
  \/ v.type = "string" /\ v.val = <<>>
  \/ v.type = "number" /\ v.val \in {<<"0">>, <<"-0">>, <<"NaN">>}

(***************************************************************************)
(* Kernel messages (IOPub) and the outputs made from them.                  *)
(***************************************************************************)
Msg(msg_type, content) == [header |-> [msg_type |-> msg_type], content |-> content]

ExecuteResult(payload, n) ==
  Msg("execute_result", [data |-> ("text/plain" :> payload), execution_count |-> Num(<<ToString(n)>>)])
DisplayData(data) == Msg("display_data", [data |-> data])
Stream(text) == Msg("stream", [name |-> "stdout", text |-> Str(text)])
ErrorMsg(traceback) == Msg("error", [ename |-> "Error", traceback |-> traceback])
Status(execution_state) == Msg("status", [execution_state |-> execution_state])

isExecuteResultMsg(msg) == msg.header.msg_type = "execute_result"
isDisplayDataMsg(msg) == msg.header.msg_type = "display_data"
isStreamMsg(msg) == msg.header.msg_type = "stream"
isErrorMsg(msg) == msg.header.msg_type = "error"

\* the output pushed for a message: { output_type: msg.header.msg_type, ...msg.content };
\* the spread comes last, so a key output_type of the content replaces the header's
OutputOf(msg) == msg.content @@ [output_type |-> msg.header.msg_type]

\* a folding that drops the traceback of error messages
PartialResultNoError(msg) ==
  IF isExecuteResultMsg(msg) THEN
    LET textOutput == Lookup(msg.content.data, "text/plain")
    IN  IF TypeOf(textOutput) = "object" THEN JSONstringify(textOutput) ELSE ToText(textOutput)
  ELSE IF isDisplayDataMsg(msg) THEN <<"Image displayed.">>
  ELSE IF isStreamMsg(msg) THEN ToText(msg.content.text)
  ELSE <<>>

\* the text a message adds to the result
PartialResult(msg) ==
  IF isExecuteResultMsg(msg) THEN
    LET textOutput == Lookup(msg.content.data, "text/plain")
    IN  IF TypeOf(textOutput) = "object" THEN JSONstringify(textOutput) ELSE ToText(textOutput)
  ELSE IF isDisplayDataMsg(msg) THEN <<"Image displayed.">>
  ELSE IF isStreamMsg(msg) THEN ToText(msg.content.text)
  ELSE IF isErrorMsg(msg) THEN Join(msg.content.traceback, <<"\n">>)
  ELSE <<>>

\* the execution_count processMessage returns for a message
PartialCount(msg) == IF isExecuteResultMsg(msg) THEN msg.content.execution_count ELSE Null

\* a processMessage that records the messages of the four kinds it folds only
processMessageKnown(msg, outputs) ==
  [outputs |-> IF isExecuteResultMsg(msg) \/ isDisplayDataMsg(msg) \/ isStreamMsg(msg)
                    \/ isErrorMsg(msg)
               THEN Append(outputs, OutputOf(msg)) ELSE outputs,
   result |-> PartialResult(msg),
   execution_count |-> PartialCount(msg)]

\* processMessage(msg, outputs): the grown outputs and the pair it returns
processMessage(msg, outputs) ==
  [outputs |-> Append(outputs, OutputOf(msg)),
   result |-> PartialResult(msg),
   execution_count |-> PartialCount(msg)]

isDisplayData(output) == output.output_type = "display_data"

(***************************************************************************)
(* Notebook models and cells.                                               *)
(***************************************************************************)
NoModel == [type |-> "none", name |-> <<>>, path |-> <<>>, cells |-> <<>>]

getNewNotebookModel(name, path) ==
  [type |-> "notebook", name |-> name, path |-> path, cells |-> <<>>]

UuidText(n) == ToString(n)

NewCell(source, outputs, execution_count, id) ==
  [cell_type |-> "code", source |-> source, id |-> UuidText(id),
   outputs |-> outputs, execution_count |-> execution_count]

\* an append that puts the new cell first
addCellsAtFront(model, source, outputs, execution_count, id) ==
  IF model.type # "notebook"
  THEN [ok |-> FALSE, error |-> <<"Model is not a notebook">>, model |-> model]
  ELSE [ok |-> TRUE, error |-> <<>>,
        model |-> [model EXCEPT !.cells = <<NewCell(source, outputs, execution_count, id)>> \o @]]

\* an append that pushes the cell and tests the type afterwards
addCellsThenCheck(model, source, outputs, execution_count, id) ==
  LET pushed == [model EXCEPT !.cells = Append(@, NewCell(source, outputs, execution_count, id))]
  IN  IF model.type # "notebook"
      THEN [ok |-> FALSE, error |-> <<"Model is not a notebook">>, model |-> pushed]
      ELSE [ok |-> TRUE, error |-> <<>>, model |-> pushed]

\* addCellsToNotebook: [ok, error, model]
addCellsToNotebook(model, source, outputs, execution_count, id) ==
  IF model.type # "notebook"
  THEN [ok |-> FALSE, error |-> <<"Model is not a notebook">>, model |-> model]
  ELSE [ok |-> TRUE, error |-> <<>>,
        model |-> [model EXCEPT !.cells = Append(@, NewCell(source, outputs, execution_count, id))]]

(***************************************************************************)
(* Image rendering (Python.saveImage, Python.saveImages; the methods of     *)
(* CodeInterpreter are the same text).                                      *)
(***************************************************************************)
\* Buffer.from(text, 'base64')
Base64Decode(text) == <<"base64:">> \o text

\* the base64 text of n bytes of value 0
RECURSIVE ZeroBytes(_)
ZeroBytes(n) ==
  IF n = 0 THEN <<>>
  ELSE IF n = 1 THEN <<"AA==">>
  ELSE IF n = 2 THEN <<"AAA=">>
  ELSE <<"AAAA">> \o ZeroBytes(n - 3)

\* `${randomUUID()}.png`
ImageName(id) == <<UuidText(id), ".png">>

MarkdownImage(imageName) == <<"![Generated Image](/images/">> \o imageName \o <<")">>

\* the message of the TypeError of Buffer.from(v, 'base64') for a v that is no string
BufferTypeError(v) ==
  <<"The first argument must be of type string or an instance of Buffer, ArrayBuffer, or Array or an Array-like Object. Received ">>
    \o (CASE v.type \in {"number", "boolean"} ->
                 <<"type ", v.type, " (">> \o v.val \o <<")">>
          [] v.type = "object" -> <<"an instance of Object">>
          [] OTHER -> <<v.type>>)

\* the argument saveImages passes to saveImage for one display_data output
ImageArgument(output) ==
  LET imageOutput == Lookup(output.data, "image/png")
  IN  IF TypeOf(imageOutput) = "object" THEN Str(JSONstringify(imageOutput)) ELSE imageOutput

\* Buffer.from(v, 'base64') accepts a string and an object with a length, whose
\* missing members are bytes of value 0
BufferAccepts(v) == v.type = "string" \/ (v.type = "object" /\ "length" \in DOMAIN v)

BufferFrom(v) ==
  IF v.type = "string" THEN Base64Decode(v.val) ELSE Base64Decode(ZeroBytes(v.length))

\* saveImage on state st = [ok, error, markdownImages, images, uuid]; the name
\* it returns is pushed by saveImages as a markdown link.  writeFails: the file
\* system rejects writeFileSync.
saveImage(st, base64ImageData, writeFails) ==
  IF ~BufferAccepts(base64ImageData)
  THEN [st EXCEPT !.ok = FALSE, !.error = BufferTypeError(base64ImageData)]
  ELSE IF writeFails
  THEN [st EXCEPT !.ok = FALSE, !.error = <<"EACCES: writeFileSync">>, !.uuid = @ + 1]
  ELSE [st EXCEPT !.uuid = @ + 1,
                  !.images = @ \cup {[name |-> ImageName(st.uuid),
                                      data |-> BufferFrom(base64ImageData)]},
                  !.markdownImages = Append(@, MarkdownImage(ImageName(st.uuid)))]

RECURSIVE SaveImagesLoop(_, _, _)
SaveImagesLoop(st, outputs, writeFails) ==
  IF outputs = <<>> \/ ~st.ok THEN st
  ELSE IF isDisplayData(Head(outputs))
  THEN SaveImagesLoop(saveImage(st, ImageArgument(Head(outputs)), writeFails),
                      Tail(outputs), writeFails)
  ELSE SaveImagesLoop(st, Tail(outputs), writeFails)

\* saveImages(outputs) from the image files and uuid counter given
saveImages(outputs, images, uuid, writeFails) ==
  SaveImagesLoop([ok |-> TRUE, error |-> <<>>, markdownImages |-> <<>>,
                  images |-> images, uuid |-> uuid], outputs, writeFails)

(***************************************************************************)
(* POSIX paths (node:path posix) over texts; the separator is the atom "/". *)
(***************************************************************************)
Sep == "/"

RECURSIVE Split(_)
Split(text) ==
  IF \A i \in 1..Len(text) : text[i] # Sep THEN <<text>>
  ELSE LET i == CHOOSE k \in 1..Len(text) :
                  text[k] = Sep /\ \A j \in 1..(k - 1) : text[j] # Sep
       IN  <<SubSeq(text, 1, i - 1)>> \o Split(SubSeq(text, i + 1, Len(text)))

\* the non-empty segments of a path
Segments(text) == SelectSeq(Split(text), LAMBDA seg : seg # <<>>)

IsAbsolute(text) == text # <<>> /\ text[1] = Sep

Front(s) == SubSeq(s, 1, Len(s) - 1)
Last(s) == s[Len(s)]

\* normalizeString: "." segments are dropped, ".." removes the segment before
\* it, and is kept where there is none to remove and the path is relative
RECURSIVE NormalizeSegments(_, _, _)
NormalizeSegments(done, segs, allowAboveRoot) ==
  IF segs = <<>> THEN done
  ELSE IF Head(segs) = <<".">> THEN NormalizeSegments(done, Tail(segs), allowAboveRoot)
  ELSE IF Head(segs) = <<"..">>
  THEN IF done # <<>> /\ Last(done) # <<"..">>
       THEN NormalizeSegments(Front(done), Tail(segs), allowAboveRoot)
       ELSE IF allowAboveRoot
       THEN NormalizeSegments(Append(done, <<"..">>), Tail(segs), allowAboveRoot)
       ELSE NormalizeSegments(done, Tail(segs), allowAboveRoot)
  ELSE NormalizeSegments(Append(done, Head(segs)), Tail(segs), allowAboveRoot)

\* posix.normalize
PosixNormalize(text) ==
  IF text = <<>> THEN <<".">>
  ELSE LET abs == IsAbsolute(text)
           trailingSeparator == Last(text) = Sep
           path == Join(NormalizeSegments(<<>>, Segments(text), ~abs), <<Sep>>)
       IN  IF path = <<>>
           THEN IF abs THEN <<Sep>> ELSE IF trailingSeparator THEN <<".", Sep>> ELSE <<".">>
           ELSE (IF abs THEN <<Sep>> ELSE <<>>) \o path
                  \o (IF trailingSeparator THEN <<Sep>> ELSE <<>>)

\* posix.join of two arguments: the non-empty ones joined by "/", normalized
PosixJoin(a, b) ==
  LET joined == IF a = <<>> THEN b ELSE IF b = <<>> THEN a ELSE a \o <<Sep>> \o b
  IN  IF joined = <<>> THEN <<".">> ELSE PosixNormalize(joined)

\* posix.dirname: the text before the last separator that has a name after it
PosixDirname(text) ==
  IF text = <<>> THEN <<".">>
  ELSE LET hasRoot == text[1] = Sep
           ends == {i \in 2..Len(text) :
                      text[i] = Sep /\ \E j \in (i + 1)..Len(text) : text[j] # Sep}
       IN  IF ends = {} THEN IF hasRoot THEN <<Sep>> ELSE <<".">>
           ELSE LET end == CHOOSE i \in ends : \A j \in ends : j <= i
                IN  IF hasRoot /\ end = 2 THEN <<Sep, Sep>> ELSE SubSeq(text, 1, end - 1)

\* posix.basename: the last name of the path
PosixBasename(text) == IF Segments(text) = <<>> THEN <<>> ELSE Last(Segments(text))

\* `${conversationId}.ipynb` and posix.join(userId, notebookName)
NotebookName(conversationId) == conversationId \o <<".ipynb">>
NotebookPath(userId, conversationId) == PosixJoin(userId, NotebookName(conversationId))

(***************************************************************************)
(* Inputs.                                                                  *)
(***************************************************************************)
Procs == {"p1", "p2"}
Tools == {"Python", "CodeInterpreter"}
Users == {<<"u1">>, <<"u2">>}
Convs == {<<"c1">>, <<"c2">>}
Codes == {<<"x = 1">>, <<"print(x)">>}

\* what the agent may pass to _call
Args ==
  {Str(code) : code \in Codes}
    \cup {[type |-> "object", val |-> <<>>, code |-> Str(code)] : code \in Codes}
    \cup {[type |-> "object", val |-> <<>>, code |-> Str(<<>>)],
          [type |-> "object", val |-> <<>>, code |-> Num(<<"0">>)],
          [type |-> "object", val |-> <<>>, code |-> NegativeZero],
          [type |-> "object", val |-> <<>>, code |-> NaN],
          [type |-> "object", val |-> <<>>, code |-> Null],
          [type |-> "object", val |-> <<>>, code |-> False],
          Obj(<<>>), Num(<<"7">>), Undefined, Null}

\* well-formed input of a tool
ValidArgs(tool) ==
  IF tool = "Python"
  THEN {[type |-> "object", val |-> <<>>, code |-> Str(code)] : code \in Codes}
  ELSE {Str(code) : code \in Codes}

\* the messages a kernel may publish for one execution
Events ==
  {Stream(<<"a">>),
   ExecuteResult(Str(<<"b">>), 3),
   ExecuteResult(Obj(<<"k:1">>), 4),
   DisplayData("image/png" :> Str(<<"iVBOR">>)),
   DisplayData("text/html" :> Str(<<"<b>">>)),
   ErrorMsg(<<<<"line1">>, <<"line2">>>>),
   Status("idle")}

\* the messages of the serial histories
SeqEvents == {Stream(<<"a">>)}

(***************************************************************************)
(* State.                                                                   *)
(***************************************************************************)
VARIABLES
  run,          \* per invocation: the locals of _call and of the helpers it awaits
  directories,  \* document store: the directories, as segment sequences
  notebooks,    \* document store: notebook path (segments) -> stored model
  sessions,     \* session registry: the running sessions
  isReady,      \* the tool objects whose sessionManager is ready
  images,       \* client/public/images: the files written
  uuid,         \* randomUUID: the next fresh identifier
  history       \* observations: the requests served, in the order served

vars == <<run, directories, notebooks, sessions, isReady, images, uuid, history>>

NoSession == [id |-> 0, path |-> <<>>, name |-> <<>>, kernel |-> FALSE]
NoPending == [active |-> FALSE, result |-> <<>>, execution_count |-> Null]
NoReturn == [kind |-> "none", value |-> <<>>]

Idle ==
  [pc |-> "idle", tool |-> "Python", userId |-> <<>>, conversationId |-> <<>>,
   object |-> 0, notebookName |-> <<>>, notebookPath |-> <<>>,
   arg |-> Undefined, code |-> Undefined,
   dirs |-> <<>>, dirIndex |-> 0, currentPath |-> <<>>,
   notebookModel |-> NoModel, session |-> NoSession,
   result |-> <<>>, outputs |-> <<>>, executionCount |-> Null, pending |-> NoPending,
   emitted |-> <<>>, markdownImages |-> <<>>,
   ret |-> NoReturn, error |-> <<>>, failed |-> FALSE, executed |-> FALSE,
   trace |-> <<>>, callbacks |-> <<>>]

\* the options the tool object of an invocation was constructed with
Instance(r) == [tool |-> r.tool, userId |-> r.userId, conversationId |-> r.conversationId]

\* the tool object an invocation runs on: every construction makes its own
\* contentsManager and sessionManager; object numbers the constructions
Object(r) ==
  [tool |-> r.tool, userId |-> r.userId, conversationId |-> r.conversationId,
   object |-> r.object]

\* this.notebookName and this.notebookPath, set by the constructor
notebookName(r) == r.notebookName
notebookPath(r) == r.notebookPath

Init ==
  /\ run = [p \in Procs |-> Idle]
  /\ directories = {}
  /\ notebooks = <<>>
  /\ sessions = {}
  /\ isReady = {}
  /\ images = {}
  /\ uuid = 1
  /\ history = [startNew |-> <<>>, connectTo |-> <<>>, succeeded |-> <<>>, saves |-> <<>>,
                executed |-> <<>>,
                calls |-> 0]

(***************************************************************************)
(* The document store (Jupyter contents) as the code uses it.               *)
(***************************************************************************)
DirExists(d) == d = <<>> \/ d \in directories

\* content of the model contentsManager.get returns for a directory
Listing(d) ==
  {[name |-> Last(q), type |-> "directory"] : q \in {x \in directories : Front(x) = d}}
    \cup {[name |-> Last(q), type |-> "notebook"] : q \in {x \in DOMAIN notebooks : Front(x) = d}}

HasEntry(content, name, type) == \E c \in content : c.name = name /\ c.type = type

\* the name newUntitled({type: 'directory'}) gives: the first free one in the root
UntitledName(k) == IF k = 0 THEN <<"Untitled Folder">> ELSE <<"Untitled Folder ", ToString(k)>>

NameTaken(d, name) == \E c \in Listing(d) : c.name = name

NewUntitledName ==
  UntitledName(CHOOSE k \in 0..Cardinality(directories) :
                 /\ ~NameTaken(<<>>, UntitledName(k))
                 /\ \A j \in 0..(k - 1) : NameTaken(<<>>, UntitledName(j)))

(***************************************************************************)
(* _call: the try block up to its first await, and the catch block.         *)
(***************************************************************************)
ErrPrefix == <<"Error executing code: ">>

\* the values a failed step throws or rejects with: an Error, a string, and an
\* object that has no conversion to a primitive (Object.create(null))
Thrown == {"Error", "string", "object"}
NoFault == "none"
Rejections == {NoFault} \cup Thrown

\* new Error(message)
NewError(message) == [type |-> "Error", val |-> message]

\* the value of kind type a failed request rejects with; text is the message of
\* the Error, the string itself, and for the object only names the request
Rejection(type, text) == [type |-> type, val |-> text]

\* catch (error): return `Error executing code: ${error instanceof Error ?
\* error.message : String(error)}`; String(error) throws a TypeError for an object
\* without conversion to a primitive, and _call then rejects with it
Catch(r, error) ==
  IF error.type \in {"Error", "string"}
  THEN [r EXCEPT !.pc = "done", !.failed = TRUE, !.error = error.val,
                 !.ret = [kind |-> "return", value |-> ErrPrefix \o error.val]]
  ELSE [r EXCEPT !.pc = "done", !.failed = TRUE, !.error = error.val,
                 !.ret = [kind |-> "throw",
                          value |-> <<"Cannot convert object to primitive value">>]]

\* a validation that lets every payload through
ValidatePythonLax(arg) ==
  [ok |-> TRUE, error |-> <<>>,
   code |-> IF "code" \in DOMAIN arg THEN arg.code ELSE Undefined]

\* Python._call, lines 105-108: [ok, error, code]
ValidatePython(arg) ==
  IF arg.type \in {"undefined", "null"}
  THEN [ok |-> FALSE, code |-> Undefined,
        error |-> <<"Cannot read properties of ", arg.type, " (reading 'code')">>]
  ELSE LET code == IF "code" \in DOMAIN arg THEN arg.code ELSE Undefined
       IN  IF Falsy(code)
           THEN [ok |-> FALSE, code |-> Undefined,
                 error |-> <<"Invalid tool input. Missing code property.">>]
           ELSE [ok |-> TRUE, code |-> code, error |-> <<>>]

\* CodeInterpreter._call, lines 339-341: [ok, error, code]
ValidateCodeInterpreter(arg) ==
  IF TypeOf(arg) # "string"
  THEN [ok |-> FALSE, code |-> Undefined,
        error |-> <<"Expected string input, but got ", TypeOf(arg), ".">>]
  ELSE [ok |-> TRUE, code |-> arg, error |-> <<>>]

Validate(tool, arg) ==
  IF tool = "Python" THEN ValidatePython(arg) ELSE ValidateCodeInterpreter(arg)

Log(r, step) == [r EXCEPT !.trace = Append(@, step)]

\* the request, or step, was logged by the invocation
HasStep(trace, step) == \E i \in 1..Len(trace) : trace[i] = step

\* a _call that resolves the session before the notebook
BeginWithSession(r) == Log([r EXCEPT !.pc = "find"], "sessions.findByPath")

\* getOrCreateNotebook up to the first contentsManager.get of createDirectoryStructure
BeginNotebook(r) ==
  Log([r EXCEPT !.pc = "cds_get",
                !.dirs = Split(PosixDirname(notebookPath(r))),
                !.dirIndex = 1,
                !.currentPath = <<Sep>>],
      "contents.get")

\* the argument _call passes as notebookPath to getOrCreatePythonSession
SessionPath(r) == r.conversationId

\* the tool objects in use: those that are ready and those of the invocations
\* in flight
ObjectsInUse == isReady \cup {Object(run[q]) : q \in {x \in Procs : run[x].pc # "idle"}}

\* the objects _call may be invoked on for the options given: one in use that
\* was constructed with them, or the one a new construction makes
ObjectsFor(tool, userId, conversationId) ==
  LET numbers == {o.object : o \in ObjectsInUse}
      new == IF numbers = {} THEN 1
             ELSE 1 + CHOOSE n \in numbers : \A m \in numbers : m <= n
  IN  {o.object : o \in {x \in ObjectsInUse : /\ x.tool = tool
                                               /\ x.userId = userId
                                               /\ x.conversationId = conversationId}}
        \cup {new}

\* new Python({ userId, conversationId, ... }) where the object is new, and
\* _call(arg) on the object
Call(p, tool, userId, conversationId, arg) ==
  /\ run[p].pc = "idle"
  /\ \E object \in ObjectsFor(tool, userId, conversationId) :
       LET r == [Idle EXCEPT !.tool = tool, !.userId = userId,
                             !.conversationId = conversationId,
                             !.object = object,
                             !.notebookName = NotebookName(conversationId),
                             !.notebookPath = NotebookPath(userId, conversationId),
                             !.arg = arg]
           v == Validate(tool, arg)
       IN  run' = [run EXCEPT ![p] =
                     IF v.ok THEN BeginNotebook([r EXCEPT !.code = v.code])
                     ELSE Catch(r, NewError(v.error))]
  /\ history' = [history EXCEPT !.calls = @ + 1]
  /\ UNCHANGED <<directories, notebooks, sessions, isReady, images, uuid>>

(***************************************************************************)
(* createDirectoryStructure: one action per awaited request.                *)
(***************************************************************************)
\* currentPath = posix.join(currentPath, directory), then the next iteration
\* or, after the loop, getOrCreateNotebook's contentsManager.get(dirname)
Advance(r) ==
  LET r1 == [r EXCEPT !.currentPath = PosixJoin(@, r.dirs[r.dirIndex])]
  IN  IF r.dirIndex < Len(r.dirs)
      THEN Log([r1 EXCEPT !.dirIndex = @ + 1, !.pc = "cds_get"], "contents.get")
      ELSE Log([r1 EXCEPT !.pc = "gcn_list"], "contents.get")

NotFound(path) == <<"404 Not Found: ">> \o path
Conflict(path) == <<"409 Conflict: ">> \o path

\* await contentsManager.get(currentPath) and the test of its content
CdsGet(p, fault) ==
  LET r == run[p]
      d == Segments(r.currentPath)
  IN  /\ r.pc = "cds_get"
      /\ run' = [run EXCEPT ![p] =
           IF fault # NoFault THEN Catch(r, Rejection(fault, <<"contents.get failed">>))
           ELSE IF ~DirExists(d) THEN Catch(r, NewError(NotFound(r.currentPath)))
           ELSE IF HasEntry(Listing(d), r.dirs[r.dirIndex], "directory") THEN Advance(r)
           ELSE Log([r EXCEPT !.pc = "cds_new"], "contents.newUntitled")]
      /\ UNCHANGED <<directories, notebooks, sessions, isReady, images, uuid, history>>

\* await contentsManager.newUntitled({ type: 'directory' }): a folder in the root
CdsNewUntitled(p, fault) ==
  LET r == run[p]
  IN  /\ r.pc = "cds_new"
      /\ IF fault # NoFault
         THEN /\ run' = [run EXCEPT ![p] = Catch(r, Rejection(fault, <<"contents.newUntitled failed">>))]
              /\ UNCHANGED directories
         ELSE /\ directories' = directories \cup {<<NewUntitledName>>}
              /\ run' = [run EXCEPT ![p] = Log([r EXCEPT !.pc = "cds_rename"], "contents.rename")]
      /\ UNCHANGED <<notebooks, sessions, isReady, images, uuid, history>>

\* await contentsManager.rename('Untitled Folder', directory): both paths from the root
CdsRename(p, fault) ==
  LET r == run[p]
      old == <<UntitledName(0)>>
      new == Segments(r.dirs[r.dirIndex])
  IN  /\ r.pc = "cds_rename"
      /\ IF fault # NoFault
         THEN /\ run' = [run EXCEPT ![p] = Catch(r, Rejection(fault, <<"contents.rename failed">>))]
              /\ UNCHANGED directories
         ELSE IF old \notin directories
         THEN /\ run' = [run EXCEPT ![p] = Catch(r, NewError(NotFound(UntitledName(0))))]
              /\ UNCHANGED directories
         ELSE IF new \in directories \/ new \in DOMAIN notebooks \/ new = <<>>
         THEN /\ run' = [run EXCEPT ![p] = Catch(r, NewError(Conflict(r.dirs[r.dirIndex])))]
              /\ UNCHANGED directories
         ELSE /\ directories' = (directories \ {old}) \cup {new}
              /\ run' = [run EXCEPT ![p] = Advance(r)]
      /\ UNCHANGED <<notebooks, sessions, isReady, images, uuid, history>>

(***************************************************************************)
(* getOrCreateNotebook after the directories, getOrCreatePythonSession.     *)
(***************************************************************************)
\* _call holds the notebook model: getOrCreatePythonSession up to its first await
AfterNotebook(r, model, ready) ==
  LET r1 == [r EXCEPT !.notebookModel = model]
  IN  IF ready
      THEN Log([r1 EXCEPT !.pc = "find"], "sessions.findByPath")
      ELSE Log([r1 EXCEPT !.pc = "ready"], "sessions.ready")

\* a resolver that stores the notebook it builds
GcnListPersist(p, fault) ==
  LET r == run[p]
      dirname == PosixDirname(notebookPath(r))
      name == PosixBasename(notebookPath(r))
      d == Segments(dirname)
      path == Segments(notebookPath(r))
      fresh == fault = NoFault /\ DirExists(d) /\ ~HasEntry(Listing(d), name, "notebook")
  IN  /\ r.pc = "gcn_list"
      /\ run' = [run EXCEPT ![p] =
           IF fault # NoFault THEN Catch(r, Rejection(fault, <<"contents.get failed">>))
           ELSE IF ~DirExists(d) THEN Catch(r, NewError(NotFound(dirname)))
           ELSE IF HasEntry(Listing(d), name, "notebook")
           THEN Log([r EXCEPT !.pc = "gcn_get"], "contents.get")
           ELSE AfterNotebook(r, getNewNotebookModel(name, notebookPath(r)),
                              Object(r) \in isReady)]
      /\ notebooks' = IF fresh
                      THEN [q \in DOMAIN notebooks \cup {path} |->
                              IF q = path THEN getNewNotebookModel(name, notebookPath(r))
                              ELSE notebooks[q]]
                      ELSE notebooks
      /\ UNCHANGED <<directories, sessions, isReady, images, uuid, history>>

\* await contentsManager.get(dirname) and the search for the notebook entry
GcnList(p, fault) ==
  LET r == run[p]
      dirname == PosixDirname(notebookPath(r))
      name == PosixBasename(notebookPath(r))
      d == Segments(dirname)
  IN  /\ r.pc = "gcn_list"
      /\ run' = [run EXCEPT ![p] =
           IF fault # NoFault THEN Catch(r, Rejection(fault, <<"contents.get failed">>))
           ELSE IF ~DirExists(d) THEN Catch(r, NewError(NotFound(dirname)))
           ELSE IF HasEntry(Listing(d), name, "notebook")
           THEN Log([r EXCEPT !.pc = "gcn_get"], "contents.get")
           ELSE AfterNotebook(r, getNewNotebookModel(name, notebookPath(r)),
                              Object(r) \in isReady)]
      /\ UNCHANGED <<directories, notebooks, sessions, isReady, images, uuid, history>>

\* a resolver that builds a new model although the notebook is stored
GcnGetFresh(p, fault) ==
  LET r == run[p]
  IN  /\ r.pc = "gcn_get"
      /\ run' = [run EXCEPT ![p] =
           IF fault # NoFault THEN Catch(r, Rejection(fault, <<"contents.get failed">>))
           ELSE AfterNotebook(r, getNewNotebookModel(PosixBasename(notebookPath(r)),
                                                     notebookPath(r)),
                              Object(r) \in isReady)]
      /\ UNCHANGED <<directories, notebooks, sessions, isReady, images, uuid, history>>

\* model = await contentsManager.get(notebookPath)
GcnGet(p, fault) ==
  LET r == run[p]
      path == Segments(notebookPath(r))
  IN  /\ r.pc = "gcn_get"
      /\ run' = [run EXCEPT ![p] =
           IF fault # NoFault THEN Catch(r, Rejection(fault, <<"contents.get failed">>))
           ELSE IF path \notin DOMAIN notebooks THEN Catch(r, NewError(NotFound(notebookPath(r))))
           ELSE AfterNotebook(r, notebooks[path], Object(r) \in isReady)]
      /\ UNCHANGED <<directories, notebooks, sessions, isReady, images, uuid, history>>

\* if (!sessionManager.isReady) await sessionManager.ready
AwaitReady(p, fault) ==
  LET r == run[p]
  IN  /\ r.pc = "ready"
      /\ IF fault # NoFault
         THEN /\ run' = [run EXCEPT ![p] = Catch(r, Rejection(fault, <<"sessions.ready failed">>))]
              /\ UNCHANGED isReady
         ELSE /\ isReady' = isReady \cup {Object(r)}
              /\ run' = [run EXCEPT ![p] = Log([r EXCEPT !.pc = "find"], "sessions.findByPath")]
      /\ UNCHANGED <<directories, notebooks, sessions, images, uuid, history>>

\* an executeCode that submits the code without looking at session.kernel
BeginExecuteUnchecked(r, session) ==
  Log([r EXCEPT !.session = session, !.pc = "executing", !.result = <<>>, !.outputs = <<>>,
                !.executionCount = Null],
      "kernel.requestExecute")

\* executeCode up to await future.done, entered with the session connection
BeginExecute(r, session) ==
  LET r1 == [r EXCEPT !.session = session]
  IN  IF ~session.kernel THEN Catch(r1, NewError(<<"Kernel is not defined">>))
      ELSE Log([r1 EXCEPT !.pc = "executing", !.result = <<>>, !.outputs = <<>>,
                          !.executionCount = Null],
               "kernel.requestExecute")

\* the connection made for a session model
Connection(model, kernel) ==
  [id |-> model.id, path |-> model.path, name |-> model.name, kernel |-> kernel]

\* session = await sessionManager.findByPath(notebookPath); connectTo when found.
\* kernel: whether the connection carries a kernel.
FindByPath(p, fault, kernel) ==
  LET r == run[p]
      found == {m \in sessions : m.path = SessionPath(r)}
  IN  /\ r.pc = "find"
      /\ IF fault # NoFault
         THEN /\ run' = [run EXCEPT ![p] = Catch(r, Rejection(fault, <<"sessions.findByPath failed">>))]
              /\ UNCHANGED history
         ELSE IF found # {}
         THEN \E m \in found :
                /\ run' = [run EXCEPT ![p] =
                     BeginExecute(Log(r, "sessions.connectTo"), Connection(m, kernel))]
                /\ history' = [history EXCEPT !.connectTo =
                                 Append(@, [instance |-> Instance(r), id |-> m.id])]
         ELSE /\ run' = [run EXCEPT ![p] = Log([r EXCEPT !.pc = "start"], "sessions.startNew")]
              /\ UNCHANGED history
      /\ UNCHANGED <<directories, notebooks, sessions, isReady, images, uuid>>

\* a session registered under the notebook path while the lookup uses SessionPath
NewSessionAtNotebookPath(r, id) ==
  [id |-> id, path |-> notebookPath(r), name |-> notebookName(r),
   type |-> "notebook", username |-> r.userId]

\* the session model startNew registers
NewSession(r, id) ==
  [id |-> id, path |-> SessionPath(r), name |-> notebookName(r),
   type |-> "notebook", username |-> r.userId]

\* a registry that hands out the session already bound to the path
StartNewUnique(p, fault, kernel) ==
  LET r == run[p]
      bound == {m \in sessions : m.path = SessionPath(r)}
      m == IF bound # {} THEN CHOOSE x \in bound : TRUE
           ELSE NewSession(r, Cardinality(sessions) + 1)
  IN  /\ r.pc = "start"
      /\ IF fault # NoFault
         THEN /\ run' = [run EXCEPT ![p] = Catch(r, Rejection(fault, <<"sessions.startNew failed">>))]
              /\ UNCHANGED <<sessions, history>>
         ELSE /\ sessions' = sessions \cup {m}
              /\ run' = [run EXCEPT ![p] = BeginExecute(r, Connection(m, kernel))]
              /\ history' = [history EXCEPT !.startNew =
                               Append(@, [instance |-> Instance(r), id |-> m.id])]
      /\ UNCHANGED <<directories, notebooks, isReady, images, uuid>>

\* await sessionManager.startNew({name, path, type, kernel}, {username})
StartNew(p, fault, kernel) ==
  LET r == run[p]
      m == NewSession(r, Cardinality(sessions) + 1)
  IN  /\ r.pc = "start"
      /\ IF fault # NoFault
         THEN /\ run' = [run EXCEPT ![p] = Catch(r, Rejection(fault, <<"sessions.startNew failed">>))]
              /\ UNCHANGED <<sessions, history>>
         ELSE /\ sessions' = sessions \cup {m}
              /\ run' = [run EXCEPT ![p] = BeginExecute(r, Connection(m, kernel))]
              /\ history' = [history EXCEPT !.startNew =
                               Append(@, [instance |-> Instance(r), id |-> m.id])]
      /\ UNCHANGED <<directories, notebooks, isReady, images, uuid>>

(***************************************************************************)
(* executeCode: the handler installed on future.onIOPub, and future.done.   *)
(* The kernel connection delivers one message at a time and awaits the      *)
(* handler before the next message or the completion.                       *)
(***************************************************************************)
\* the kernel publishes msg: the handler starts, processMessage pushes the output
\* and returns; the handler is suspended at its await
Emit(p, msg) ==
  LET r == run[p]
      m == processMessage(msg, r.outputs)
  IN  /\ r.pc = "executing"
      /\ ~r.pending.active
      /\ Len(r.emitted) < MaxEvents
      /\ run' = [run EXCEPT ![p] =
           [r EXCEPT !.outputs = m.outputs,
                     !.emitted = Append(@, msg),
                     !.pending = [active |-> TRUE, result |-> m.result,
                                  execution_count |-> m.execution_count]]]
      /\ UNCHANGED <<directories, notebooks, sessions, isReady, images, uuid, history>>

\* a handler that assigns the partial result instead of appending it
FoldOverwrite(r) ==
  [r EXCEPT !.result = r.pending.result,
            !.executionCount = r.pending.execution_count,
            !.pending = NoPending]

\* the handler after its await: result += partialResult; executionCount = execution_count
Fold(r) ==
  [r EXCEPT !.result = @ \o r.pending.result,
            !.executionCount = r.pending.execution_count,
            !.pending = NoPending]

HandlerResume(p) ==
  LET r == run[p]
  IN  /\ r.pc = "executing"
      /\ r.pending.active
      /\ run' = [run EXCEPT ![p] = Fold(r)]
      /\ UNCHANGED <<directories, notebooks, sessions, isReady, images, uuid, history>>

(***************************************************************************)
(* _call after executeCode: saveImages, toolOutputCallback,                 *)
(* addCellsToNotebook, and the request contentsManager.save.                *)
(***************************************************************************)
FaultsAfterExecute == {"none", "done", "write", "callback"}

\* future.done settles: the kernel has executed the code to completion.  fault:
\* "done" the future rejects, "write" writeFileSync throws, "callback"
\* toolOutputCallback throws; thrown: the kind of value the future rejects with
\* or the callback throws (writeFileSync throws an Error).
Done(p, fault, thrown) ==
  LET r == run[p]
      r0 == [run[p] EXCEPT !.executed = TRUE]
      st == saveImages(r.outputs, images, uuid, fault = "write")
      r1 == [r0 EXCEPT !.markdownImages = st.markdownImages]
      r2 == [r1 EXCEPT !.callbacks = Append(@, st.markdownImages)]
      add == addCellsToNotebook(r.notebookModel, r.code, r.outputs, r.executionCount, st.uuid)
  IN  /\ r.pc = "executing"
      /\ ~r.pending.active
      /\ fault \in FaultsAfterExecute
      /\ thrown \in Thrown
      /\ IF fault = "done"
         THEN /\ run' = [run EXCEPT ![p] = Catch(r, Rejection(thrown, <<"Canceled future for execute_request">>))]
              /\ UNCHANGED <<images, uuid>>
         ELSE IF ~st.ok
         THEN /\ run' = [run EXCEPT ![p] = Catch(Log(r0, "saveImages"), NewError(st.error))]
              /\ images' = st.images
              /\ uuid' = st.uuid
         ELSE IF fault = "callback"
         THEN /\ run' = [run EXCEPT ![p] =
                   Catch(Log(Log(r2, "saveImages"), "toolOutputCallback"),
                         Rejection(thrown, <<"toolOutputCallback failed">>))]
              /\ images' = st.images
              /\ uuid' = st.uuid
         ELSE IF ~add.ok
         THEN /\ run' = [run EXCEPT ![p] =
                   Catch(Log(Log(Log(r2, "saveImages"), "toolOutputCallback"),
                             "addCellsToNotebook"), NewError(add.error))]
              /\ images' = st.images
              /\ uuid' = st.uuid
         ELSE /\ run' = [run EXCEPT ![p] =
                   Log(Log(Log(Log([r2 EXCEPT !.notebookModel = add.model, !.pc = "save"],
                                   "saveImages"), "toolOutputCallback"),
                           "addCellsToNotebook"), "contents.save")]
              /\ images' = st.images
              /\ uuid' = st.uuid + 1
      /\ history' = IF fault = "done" THEN history
                    ELSE [history EXCEPT !.executed =
                            Append(@, [instance |-> Instance(r), code |-> r.code])]
      /\ UNCHANGED <<directories, notebooks, sessions, isReady>>

\* a store that refuses a save whose base is not the notebook it holds
SaveChecked(p, fault) ==
  LET r == run[p]
      path == Segments(notebookPath(r))
      held == IF path \in DOMAIN notebooks THEN notebooks[path].cells ELSE <<>>
  IN  /\ r.pc = "save"
      /\ IF fault # NoFault \/ held # Front(r.notebookModel.cells)
         THEN /\ run' = [run EXCEPT ![p] = Catch(r, NewError(Conflict(notebookPath(r))))]
              /\ UNCHANGED <<notebooks, history>>
         ELSE /\ notebooks' = [q \in DOMAIN notebooks \cup {path} |->
                                 IF q = path THEN r.notebookModel ELSE notebooks[q]]
              /\ run' = [run EXCEPT ![p] =
                   [r EXCEPT !.pc = "done", !.ret = [kind |-> "return", value |-> r.result]]]
              /\ history' = [history EXCEPT !.saves = Append(@, Last(r.notebookModel.cells).id)]
      /\ UNCHANGED <<directories, sessions, isReady, images, uuid>>

\* await this.contentsManager.save(this.notebookPath, notebookModel); return result
Save(p, fault) ==
  LET r == run[p]
      path == Segments(notebookPath(r))
  IN  /\ r.pc = "save"
      /\ IF fault # NoFault
         THEN /\ run' = [run EXCEPT ![p] = Catch(r, Rejection(fault, <<"contents.save failed">>))]
              /\ UNCHANGED <<notebooks, history>>
         ELSE IF ~DirExists(Front(path))
         THEN /\ run' = [run EXCEPT ![p] = Catch(r, NewError(NotFound(notebookPath(r))))]
              /\ UNCHANGED <<notebooks, history>>
         ELSE /\ notebooks' = [q \in DOMAIN notebooks \cup {path} |->
                                 IF q = path THEN r.notebookModel ELSE notebooks[q]]
              /\ run' = [run EXCEPT ![p] =
                   [r EXCEPT !.pc = "done", !.ret = [kind |-> "return", value |-> r.result]]]
              /\ history' = [history EXCEPT !.saves = Append(@, Last(r.notebookModel.cells).id)]
      /\ UNCHANGED <<directories, sessions, isReady, images, uuid>>

\* the caller takes the settled promise; the instance may be invoked again
Return(p) ==
  LET r == run[p]
  IN  /\ r.pc = "done"
      /\ run' = [run EXCEPT ![p] = Idle]
      /\ history' = [history EXCEPT !.succeeded =
                       IF r.failed THEN @
                       ELSE Append(@, [instance |-> Instance(r), code |-> r.code])]
      /\ UNCHANGED <<directories, notebooks, sessions, isReady, images, uuid>>

(***************************************************************************)
(* Specifications.                                                          *)
(***************************************************************************)
\* the state a first successful run of Python(u1, c1) on "x = 1" leaves, the
\* kernel having published one stream message
EstablishedInit ==
  LET instance == [tool |-> "Python", userId |-> <<"u1">>, conversationId |-> <<"c1">>]
      path == NotebookPath(<<"u1">>, <<"c1">>)
      model == addCellsToNotebook(getNewNotebookModel(PosixBasename(path), path),
                                  Str(<<"x = 1">>), <<OutputOf(Stream(<<"a">>))>>,
                                  Null, 1).model
  IN  /\ run = [p \in Procs |-> Idle]
      /\ directories = {<<<<"u1">>>>}
      /\ notebooks = (Segments(path) :> model)
      /\ sessions = {[id |-> 1, path |-> <<"c1">>, name |-> NotebookName(<<"c1">>),
                      type |-> "notebook", username |-> <<"u1">>]}
      /\ isReady = {instance @@ [object |-> 1]}
      /\ images = {}
      /\ uuid = 2
      /\ history = [startNew |-> <<[instance |-> instance, id |-> 1]>>,
                    connectTo |-> <<>>,
                    succeeded |-> <<[instance |-> instance, code |-> Str(<<"x = 1">>)]>>,
                    saves |-> <<UuidText(1)>>,
                    executed |-> <<[instance |-> instance, code |-> Str(<<"x = 1">>)]>>,
                    calls |-> 1]

\* Spec: one invocation, any tool, any input, any message stream, any fault,
\* on a fresh server or on an established conversation
CallAny ==
  \E tool \in Tools, userId \in Users, conversationId \in Convs, arg \in Args :
    Call("p1", tool, userId, conversationId, arg)

Next ==
  \/ CallAny
  \/ \E fault \in Rejections : CdsGet("p1", fault)
  \/ \E fault \in Rejections : CdsNewUntitled("p1", fault)
  \/ \E fault \in Rejections : CdsRename("p1", fault)
  \/ \E fault \in Rejections : GcnList("p1", fault)
  \/ \E fault \in Rejections : GcnGet("p1", fault)
  \/ \E fault \in Rejections : AwaitReady("p1", fault)
  \/ \E fault \in Rejections, kernel \in BOOLEAN : FindByPath("p1", fault, kernel)
  \/ \E fault \in Rejections, kernel \in BOOLEAN : StartNew("p1", fault, kernel)
  \/ \E msg \in Events : Emit("p1", msg)
  \/ HandlerResume("p1")
  \/ \E fault \in FaultsAfterExecute, thrown \in Thrown : Done("p1", fault, thrown)
  \/ \E fault \in Rejections : Save("p1", fault)

Spec == (Init \/ EstablishedInit) /\ [][Next]_vars

\* SeqSpec: a serial history of invocations with well-formed input
CallValid ==
  /\ history.calls < MaxRuns
  /\ \E userId \in Users, conversationId \in Convs, arg \in ValidArgs("Python") :
       Call("p1", "Python", userId, conversationId, arg)

EmitSeq ==
  /\ Len(run["p1"].emitted) < MaxSeqEvents
  /\ \E msg \in SeqEvents : Emit("p1", msg)

SeqNext ==
  \/ CallValid
  \/ \E fault \in Rejections : CdsGet("p1", fault)
  \/ \E fault \in Rejections : CdsNewUntitled("p1", fault)
  \/ \E fault \in Rejections : CdsRename("p1", fault)
  \/ \E fault \in Rejections : GcnList("p1", fault)
  \/ \E fault \in Rejections : GcnGet("p1", fault)
  \/ \E fault \in Rejections : AwaitReady("p1", fault)
  \/ \E fault \in Rejections, kernel \in BOOLEAN : FindByPath("p1", fault, kernel)
  \/ \E fault \in Rejections, kernel \in BOOLEAN : StartNew("p1", fault, kernel)
  \/ EmitSeq
  \/ HandlerResume("p1")
  \/ \E fault \in FaultsAfterExecute, thrown \in Thrown : Done("p1", fault, thrown)
  \/ \E fault \in Rejections : Save("p1", fault)
  \/ Return("p1")

SeqSpec == Init /\ [][SeqNext]_vars

\* ConcSpec: two invocations of the tool for the conversation (u1, c1) in flight
\* at once, interleaved at their awaits; the services answer every request
ConcCall(p) ==
  \E arg \in ValidArgs("Python") : Call(p, "Python", <<"u1">>, <<"c1">>, arg)

ConcEmit(p) ==
  /\ Len(run[p].emitted) < MaxSeqEvents
  /\ \E msg \in SeqEvents : Emit(p, msg)

ConcNext ==
  \E p \in Procs :
    \/ ConcCall(p)
    \/ CdsGet(p, NoFault)
    \/ CdsNewUntitled(p, NoFault)
    \/ CdsRename(p, NoFault)
    \/ GcnList(p, NoFault)
    \/ GcnGet(p, NoFault)
    \/ AwaitReady(p, NoFault)
    \/ FindByPath(p, NoFault, TRUE)
    \/ StartNew(p, NoFault, TRUE)
    \/ ConcEmit(p)
    \/ HandlerResume(p)
    \/ Done(p, "none", "Error")
    \/ Save(p, NoFault)

ConcSpec == (Init \/ EstablishedInit) /\ [][ConcNext]_vars

\* EnsureSpec: createDirectoryStructure on a store that holds any of the
\* directories below, for a notebook path of two and of three segments, and
\* called a second time with the same path once it has returned
PathUsers == {<<"a">>, <<"a", Sep, "b">>}

EnsureStores ==
  {D \in SUBSET {<<<<"a">>>>, <<<<"a">>, <<"b">>>>, <<<<"b">>>>, <<UntitledName(0)>>} :
     <<<<"a">>, <<"b">>>> \in D => <<<<"a">>>> \in D}

EnsureInit ==
  /\ run = [p \in Procs |-> Idle]
  /\ directories \in EnsureStores
  /\ notebooks = <<>>
  /\ sessions = {}
  /\ isReady = {}
  /\ images = {}
  /\ uuid = 1
  /\ history = [startNew |-> <<>>, connectTo |-> <<>>, succeeded |-> <<>>, saves |-> <<>>,
                executed |-> <<>>,
                calls |-> 0]

EnsureCall ==
  \E userId \in PathUsers :
    Call("p1", "Python", userId, <<"c1">>,
         [type |-> "object", val |-> <<>>, code |-> Str(<<"x = 1">>)])

SecondCall == "createDirectoryStructure (second call)"

\* createDirectoryStructure(contentsManager, dirname) called again with the path
\* of the call that has returned, up to its first contentsManager.get
EnsureAgain(p) ==
  LET r == run[p]
  IN  /\ r.pc = "gcn_list"
      /\ ~HasStep(r.trace, SecondCall)
      /\ run' = [run EXCEPT ![p] =
           Log(Log([r EXCEPT !.pc = "cds_get",
                             !.dirs = Split(PosixDirname(notebookPath(r))),
                             !.dirIndex = 1,
                             !.currentPath = <<Sep>>],
                   SecondCall), "contents.get")]
      /\ UNCHANGED <<directories, notebooks, sessions, isReady, images, uuid, history>>

EnsureNext ==
  \/ EnsureCall
  \/ \E fault \in Rejections : CdsGet("p1", fault)
  \/ \E fault \in Rejections : CdsNewUntitled("p1", fault)
  \/ \E fault \in Rejections : CdsRename("p1", fault)
  \/ EnsureAgain("p1")

EnsureSpec == EnsureInit /\ [][EnsureNext]_vars

\* CellSpec: addCellsToNotebook applied once to a document, a source, an output
\* list and a counter drawn from the sets below
DocTypes == {"notebook", "file", "directory"}

SampleCells ==
  {NewCell(Str(<<"x = 1">>), <<>>, Null, 7),
   NewCell(Str(<<"print(x)">>), <<OutputOf(Stream(<<"a">>))>>, Num(<<"3">>), 8)}

SeqsUpTo(S, n) == UNION {[1..k -> S] : k \in 0..n}

Documents ==
  {[type |-> t, name |-> NotebookName(<<"c1">>), path |-> NotebookPath(<<"u1">>, <<"c1">>),
    cells |-> cells] : t \in DocTypes, cells \in SeqsUpTo(SampleCells, MaxCells)}

OutputLists ==
  {<<>>,
   <<OutputOf(Stream(<<"a">>))>>,
   <<OutputOf(ExecuteResult(Str(<<"b">>), 3)),
     OutputOf(DisplayData("image/png" :> Str(<<"iVBOR">>)))>>}

Counters == {Null, Num(<<"3">>)}

CellInit ==
  /\ \E model \in Documents, code \in Codes, outputs \in OutputLists, count \in Counters :
       run = [p \in Procs |->
                IF p = "p1"
                THEN [Idle EXCEPT !.pc = "append", !.notebookModel = model,
                                  !.code = Str(code), !.outputs = outputs,
                                  !.executionCount = count]
                ELSE Idle]
  /\ directories = {}
  /\ notebooks = <<>>
  /\ sessions = {}
  /\ isReady = {}
  /\ images = {}
  /\ uuid = 1
  /\ history = [startNew |-> <<>>, connectTo |-> <<>>, succeeded |-> <<>>, saves |-> <<>>,
                executed |-> <<>>,
                calls |-> 0]

\* addCellsToNotebook(model, source, outputs, execution_count): the model is
\* changed in place, or the error is thrown to the caller
AppendCell(p) ==
  LET r == run[p]
      add == addCellsToNotebook(r.notebookModel, r.code, r.outputs, r.executionCount, uuid)
  IN  /\ r.pc = "append"
      /\ IF add.ok
         THEN /\ run' = [run EXCEPT ![p] = [r EXCEPT !.pc = "appended",
                                                     !.notebookModel = add.model]]
              /\ uuid' = uuid + 1
         ELSE /\ run' = [run EXCEPT ![p] = [r EXCEPT !.pc = "thrown", !.failed = TRUE,
                                                     !.error = add.error,
                                                     !.notebookModel = add.model]]
              /\ UNCHANGED uuid
      /\ UNCHANGED <<directories, notebooks, sessions, isReady, images, history>>

CellNext == AppendCell("p1")

CellSpec == CellInit /\ [][CellNext]_vars

(***************************************************************************)
(* Vocabulary of the claims.                                                *)
(***************************************************************************)
IsPrefix(s, t) == Len(s) <= Len(t) /\ SubSeq(t, 1, Len(s)) = s

Contains(text, sub) ==
  \E i \in 0..(Len(text) - Len(sub)) : SubSeq(text, i + 1, i + Len(sub)) = sub

\* lines joined by newlines
RECURSIVE NewlineJoined(_)
NewlineJoined(lines) ==
  IF lines = <<>> THEN <<>>
  ELSE IF Len(lines) = 1 THEN lines[1]
  ELSE NewlineJoined(Front(lines)) \o <<"\n">> \o Last(lines)

\* the contribution of one kernel event to the result text, by kind
Contribution(msg) ==
  CASE msg.header.msg_type = "execute_result" ->
         LET payload == msg.content.data["text/plain"]
         IN  IF payload.type = "string" THEN payload.val ELSE <<"{">> \o payload.val \o <<"}">>
    [] msg.header.msg_type = "display_data" -> <<"Image displayed.">>
    [] msg.header.msg_type = "stream" -> msg.content.text.val
    [] msg.header.msg_type = "error" -> NewlineJoined(msg.content.traceback)
    [] OTHER -> <<>>

RECURSIVE ExpectedText(_)
ExpectedText(events) ==
  IF events = <<>> THEN <<>> ELSE Contribution(Head(events)) \o ExpectedText(Tail(events))

\* the counter of the last ExecuteResult event, absent when there is none
RECURSIVE LastCounter(_)
LastCounter(events) ==
  IF events = <<>> THEN Null
  ELSE IF events[Len(events)].header.msg_type = "execute_result"
  THEN events[Len(events)].content.execution_count
  ELSE LastCounter(Front(events))

HasKind(events, kind) == \E i \in 1..Len(events) : events[i].header.msg_type = kind

\* a DisplayData event, or output, with and without an image payload
IsImageDisplay(e) == "image/png" \in DOMAIN e.data
ImagelessEvent(events) ==
  \E i \in 1..Len(events) :
    events[i].header.msg_type = "display_data" /\ ~IsImageDisplay(events[i].content)
ImageOutputs(outputs) ==
  SelectSeq(outputs, LAMBDA o : o.output_type = "display_data" /\ IsImageDisplay(o))

\* the failures of the environment after the code was submitted
FaultsOfServices ==
  {<<"Canceled future for execute_request">>, <<"EACCES: writeFileSync">>,
   <<"toolOutputCallback failed">>, <<"contents.save failed">>}

\* the notebook stored for a conversation, its cells when there is none being <<>>
StoredCells(userId, conversationId) ==
  LET path == Segments(NotebookPath(userId, conversationId))
  IN  IF path \in DOMAIN notebooks THEN notebooks[path].cells ELSE <<>>

\* a malformed tool input: not a string for the raw-string tool, no code field
\* for the structured tool
Malformed(tool, arg) ==
  IF tool = "CodeInterpreter" THEN arg.type # "string" ELSE "code" \notin DOMAIN arg

(***************************************************************************)
(* C1: run is total.  An invocation never throws to its caller: it ends by  *)
(* returning a text, which after a failed step is "Error executing code: "   *)
(* followed by the failure's message; and an invocation that has not        *)
(* returned can always take the step it waits for.                          *)
(***************************************************************************)
\* the step an invocation waits for can be taken
CanStep(p) ==
  CASE run[p].pc = "cds_get" -> ENABLED CdsGet(p, NoFault)
    [] run[p].pc = "cds_new" -> ENABLED CdsNewUntitled(p, NoFault)
    [] run[p].pc = "cds_rename" -> ENABLED CdsRename(p, NoFault)
    [] run[p].pc = "gcn_list" -> ENABLED GcnList(p, NoFault)
    [] run[p].pc = "gcn_get" -> ENABLED GcnGet(p, NoFault)
    [] run[p].pc = "ready" -> ENABLED AwaitReady(p, NoFault)
    [] run[p].pc = "find" -> ENABLED FindByPath(p, NoFault, TRUE)
    [] run[p].pc = "start" -> ENABLED StartNew(p, NoFault, TRUE)
    [] run[p].pc = "executing" -> ENABLED (HandlerResume(p) \/ Done(p, "none", "Error"))
    [] run[p].pc = "save" -> ENABLED Save(p, NoFault)
    [] OTHER -> FALSE

C1_RunIsTotal ==
  \A p \in Procs :
    LET r == run[p]
    IN  /\ r.ret.kind # "throw"
        /\ r.pc = "done" => r.ret.kind = "return"
        /\ (r.pc = "done" /\ r.failed) => r.ret.value = ErrPrefix \o r.error
        /\ r.pc \notin {"idle", "done"} => CanStep(p)

(***************************************************************************)
(* C4: output folding.  When execute has returned, the result text is the   *)
(* concatenation, in emission order, of the contributions of the events the *)
(* kernel emitted; a run without failure returns that text.                 *)
(***************************************************************************)
C4_OutputFolding ==
  \A p \in Procs :
    LET r == run[p]
    IN  /\ r.executed => r.result = ExpectedText(r.emitted)
        /\ (r.pc = "done" /\ ~r.failed) => r.ret.value = ExpectedText(r.emitted)

C4_Witness ==
  /\ run["p1"].executed
  /\ run["p1"].emitted = <<Stream(<<"a">>), ExecuteResult(Str(<<"b">>), 3),
                           DisplayData("image/png" :> Str(<<"iVBOR">>))>>
  /\ run["p1"].result = <<"a", "b", "Image displayed.">>

(***************************************************************************)
(* C5: execution counter.  When execute has returned, the counter it        *)
(* returns is the one of the last ExecuteResult event of the stream,        *)
(* whatever follows that event, and is absent only when the stream held no  *)
(* ExecuteResult event.                                                     *)
(***************************************************************************)
C5_CounterOfLastExecuteResult ==
  \A p \in Procs :
    run[p].executed => run[p].executionCount = LastCounter(run[p].emitted)

(***************************************************************************)
(* C6: a runtime exception of the executed code is a successful completion. *)
(* A run whose stream holds an Error event and none of whose steps failed   *)
(* returns the folded text, which contains the traceback, and the notebook  *)
(* stored for the conversation ends with the cell of this run, with all its *)
(* outputs; and when such a run failed, the failure is one of the services  *)
(* or of rendering, not the Error event.                                    *)
(***************************************************************************)
C6_RuntimeErrorIsSuccess ==
  \A p \in Procs :
    LET r == run[p]
        cells == StoredCells(r.userId, r.conversationId)
    IN  (r.pc = "done" /\ HasKind(r.emitted, "error")) =>
          /\ ~r.failed =>
               /\ r.ret.value = ExpectedText(r.emitted)
               /\ \A i \in 1..Len(r.emitted) :
                    r.emitted[i].header.msg_type = "error" =>
                      Contains(r.ret.value, NewlineJoined(r.emitted[i].content.traceback))
               /\ cells # <<>>
               /\ Last(cells).source = r.code
               /\ Last(cells).outputs = [i \in 1..Len(r.emitted) |-> OutputOf(r.emitted[i])]
          /\ r.failed => (r.error \in FaultsOfServices \/ ImagelessEvent(r.emitted))

C6_Witness ==
  /\ run["p1"].pc = "done"
  /\ ~run["p1"].failed
  /\ run["p1"].emitted = <<ErrorMsg(<<<<"line1">>, <<"line2">>>>)>>
  /\ run["p1"].ret.value = <<"line1", "\n", "line2">>

(***************************************************************************)
(* C8: a DisplayData output without an image payload is skipped by render.  *)
(* A run whose stream holds such an output, and in which no service fails,  *)
(* does not fail: it returns the folded text and its cell is stored.        *)
(***************************************************************************)
C8_ImagelessDisplaySkipped ==
  \A p \in Procs :
    LET r == run[p]
    IN  (r.pc = "done" /\ ImagelessEvent(r.emitted) /\ r.error \notin FaultsOfServices) =>
          /\ ~r.failed
          /\ r.ret.value = ExpectedText(r.emitted)
          /\ StoredCells(r.userId, r.conversationId) # <<>>

(***************************************************************************)
(* C9: image extraction.  Once render has run on an output list (the file   *)
(* system accepting writes), it has yielded one markdown link               *)
(* ![Generated Image](/images/<id>.png) and written one file per            *)
(* DisplayData output with an image payload, in order, the identifiers      *)
(* being pairwise different.                                                *)
(***************************************************************************)
C9_OneLinkPerImage ==
  \A p \in Procs :
    LET r == run[p]
        wanted == ImageOutputs(r.outputs)
        links == r.markdownImages
    IN  (HasStep(r.trace, "saveImages") /\ r.error # <<"EACCES: writeFileSync">>) =>
          /\ Len(links) = Len(wanted)
          /\ Cardinality(images) = Len(wanted)
          /\ \A i \in 1..Len(links) :
               /\ Len(links[i]) = 4
               /\ links[i][1] = "![Generated Image](/images/"
               /\ links[i][3] = ".png"
               /\ links[i][4] = ")"
               /\ \E f \in images : f.name = <<links[i][2], links[i][3]>>
               /\ \A j \in 1..Len(links) : links[i] = links[j] => i = j

(***************************************************************************)
(* C10: malformed tool input is rejected before any I/O.  The invocation    *)
(* has returned an "Error executing code: " text without having issued a    *)
(* request to the document store, the session registry or a kernel and      *)
(* without having invoked the output callback.                              *)
(***************************************************************************)
C10_MalformedInputRejected ==
  \A p \in Procs :
    LET r == run[p]
    IN  (r.pc # "idle" /\ Malformed(r.tool, r.arg)) =>
          /\ r.pc = "done"
          /\ r.ret.kind = "return"
          /\ IsPrefix(ErrPrefix, r.ret.value)
          /\ r.trace = <<>>
          /\ r.callbacks = <<>>
          /\ ~r.executed

C10_Witness ==
  /\ run["p1"].pc = "done"
  /\ run["p1"].tool = "Python"
  /\ run["p1"].arg = Obj(<<>>)
  /\ run["p1"].trace = <<>>
  /\ run["p1"].ret.value =
       <<"Error executing code: ", "Invalid tool input. Missing code property.">>

(***************************************************************************)
(* Serial histories (SeqSpec).                                              *)
(***************************************************************************)
\* an entry of the history that belongs to the conversation (userId, conversationId)
Of(entry, userId, conversationId) ==
  /\ entry.instance.userId = userId
  /\ entry.instance.conversationId = conversationId

Indices(seq, userId, conversationId) ==
  {i \in 1..Len(seq) : Of(seq[i], userId, conversationId)}

\* the codes of the successful runs of a conversation, in invocation order
RECURSIVE CodesOf(_, _, _)
CodesOf(seq, userId, conversationId) ==
  IF seq = <<>> THEN <<>>
  ELSE IF Of(Head(seq), userId, conversationId)
  THEN <<Head(seq).code>> \o CodesOf(Tail(seq), userId, conversationId)
  ELSE CodesOf(Tail(seq), userId, conversationId)

Sources(cells) == [i \in 1..Len(cells) |-> cells[i].source]

\* the sessions the invocations resolved to: started or attached to
Resolutions ==
  {history.startNew[i] : i \in 1..Len(history.startNew)}
    \cup {history.connectTo[i] : i \in 1..Len(history.connectTo)}

(***************************************************************************)
(* C2: session reuse under sequential use.  For every conversation at most  *)
(* one session is started, the registry holds at most one session per path, *)
(* and once a run of the conversation has succeeded no later run of it      *)
(* comes to call startNew: it finds the session and attaches to it.         *)
(***************************************************************************)
C2_SessionReuse ==
  /\ \A userId \in Users, conversationId \in Convs :
       Cardinality(Indices(history.startNew, userId, conversationId)) <= 1
  /\ \A s1 \in sessions, s2 \in sessions : s1.path = s2.path => s1 = s2
  /\ \A p \in Procs :
       run[p].pc = "start" =>
         Indices(history.succeeded, run[p].userId, run[p].conversationId) = {}

C2_Witness ==
  /\ run["p1"].pc = "idle"
  /\ Cardinality(Indices(history.succeeded, <<"u1">>, <<"c1">>)) = 2
  /\ Cardinality(Indices(history.startNew, <<"u1">>, <<"c1">>)) = 1
  /\ Cardinality(Indices(history.connectTo, <<"u1">>, <<"c1">>)) = 1

(***************************************************************************)
(* C3: the session of a conversation is keyed by its notebook path.  Every  *)
(* session is registered under the path {userId}/{conversationId}.ipynb of  *)
(* the notebook it belongs to, and two invocations for different            *)
(* (userId, conversationId) pairs never resolve to the same session.        *)
(***************************************************************************)
C3_SessionKeyedByNotebookPath ==
  /\ \A s \in sessions : s.path = PosixJoin(s.username, s.name)
  /\ \A e1 \in Resolutions, e2 \in Resolutions :
       e1.id = e2.id =>
         /\ e1.instance.userId = e2.instance.userId
         /\ e1.instance.conversationId = e2.instance.conversationId

(***************************************************************************)
(* C7: persisted history under sequential use.  Between invocations the     *)
(* notebook stored for a conversation holds one cell per successful run of  *)
(* the conversation, in invocation order, the i-th source being the i-th    *)
(* code; and no step removes a stored notebook or changes, removes or       *)
(* reorders the cells it holds: the stored cells only grow at the end.      *)
(***************************************************************************)
C7_CellsAreTheSuccessfulRuns ==
  (\A p \in Procs : run[p].pc = "idle") =>
    \A userId \in Users, conversationId \in Convs :
      Sources(StoredCells(userId, conversationId)) =
        CodesOf(history.succeeded, userId, conversationId)

C7_CellsOnlyAppended ==
  \A path \in DOMAIN notebooks :
    /\ path \in DOMAIN notebooks'
    /\ IsPrefix(notebooks[path].cells, notebooks'[path].cells)

C7_PersistedHistory == [](C7_CellsAreTheSuccessfulRuns) /\ [][C7_CellsOnlyAppended]_vars

C7_Witness ==
  /\ run["p1"].pc = "idle"
  /\ Len(StoredCells(<<"u1">>, <<"c1">>)) = 2
  /\ Sources(StoredCells(<<"u1">>, <<"c1">>)) = <<Str(<<"x = 1">>), Str(<<"print(x)">>)>>
  /\ Len(history.succeeded) = 2

(***************************************************************************)
(* Concurrent invocations (ConcSpec).                                       *)
(***************************************************************************)
\* the cells of the notebook an invocation resolved, before it appended its own
Base(r) == Front(r.notebookModel.cells)

\* the invocation has saved its notebook and returned its result
Saved(r) == r.pc = "done" /\ ~r.failed

CellIds(cells) == {cells[i].id : i \in 1..Len(cells)}

(***************************************************************************)
(* C11: lost update on concurrent use.  The store accepts every save and    *)
(* replaces the notebook it holds, without a version check or a lock; so    *)
(* when two concurrent invocations of one conversation resolved the same    *)
(* base notebook and both returned a result, the stored notebook is the     *)
(* base followed by the cell of the later save only: the cell of the        *)
(* earlier save is lost.                                                    *)
(***************************************************************************)
C11_SaveOverwrites ==
  \A p \in Procs :
    (run[p].pc = "save" /\ run'[p].pc = "done") =>
      /\ ~run'[p].failed
      /\ notebooks'[Segments(notebookPath(run[p]))] = run[p].notebookModel

C11_LaterSaveWins ==
  LET r1 == run["p1"]
      r2 == run["p2"]
      stored == StoredCells(<<"u1">>, <<"c1">>)
      n == Len(history.saves)
  IN  (Saved(r1) /\ Saved(r2) /\ Base(r1) = Base(r2)) =>
        /\ n >= 2
        /\ Len(stored) = Len(Base(r1)) + 1
        /\ Front(stored) = Base(r1)
        /\ Last(stored).id = history.saves[n]
        /\ history.saves[n - 1] \notin CellIds(stored)
        /\ {Last(r1.notebookModel.cells).id, Last(r2.notebookModel.cells).id}
             = {history.saves[n - 1], history.saves[n]}

C11_LostUpdate == []C11_LaterSaveWins /\ [][C11_SaveOverwrites]_vars

C11_Witness ==
  /\ Saved(run["p1"]) /\ Saved(run["p2"])
  /\ Base(run["p1"]) = <<>> /\ Base(run["p2"]) = <<>>
  /\ run["p1"].code = Str(<<"x = 1">>) /\ run["p2"].code = Str(<<"print(x)">>)
  /\ history.saves = <<UuidText(1), UuidText(2)>>
  /\ Sources(StoredCells(<<"u1">>, <<"c1">>)) = <<Str(<<"print(x)">>)>>

(***************************************************************************)
(* C12: duplicate session on concurrent first use.  The lookup and the      *)
(* start of a session are two requests; when the lookups of two concurrent  *)
(* invocations of one conversation both returned no session, both call      *)
(* startNew, each gets a session of its own, and the registry holds two     *)
(* sessions bound to the same path.                                         *)
(***************************************************************************)
\* the lookup of the invocation found no session and its startNew was served
Started(r) == HasStep(r.trace, "sessions.startNew") /\ r.session.id # 0

SessionsAt(path) == {m \in sessions : m.path = path}

C12_DuplicateSession ==
  LET r1 == run["p1"]
      r2 == run["p2"]
  IN  (Started(r1) /\ Started(r2)) =>
        /\ r1.session.id # r2.session.id
        /\ r1.session.path = r2.session.path
        /\ \A r \in {r1, r2} : \E m \in SessionsAt(r.session.path) : m.id = r.session.id
        /\ Cardinality(SessionsAt(r1.session.path)) = 2

C12_Witness ==
  /\ Started(run["p1"]) /\ Started(run["p2"])
  /\ Len(history.startNew) = 2
  /\ history.connectTo = <<>>
  /\ Cardinality(SessionsAt(<<"c1">>)) = 2

(***************************************************************************)
(* C13: appendCell on a document of type "notebook" adds exactly one cell,  *)
(* as the last one, whose source is the submitted code and whose outputs    *)
(* and execution counter are the ones passed; every cell present before     *)
(* keeps its content and its position.                                      *)
(***************************************************************************)
C13_AppendStep ==
  \A p \in Procs :
    (run[p].pc = "append" /\ run[p].notebookModel.type = "notebook") =>
      LET before == run[p].notebookModel.cells
          after == run'[p].notebookModel.cells
      IN  /\ run'[p].pc = "appended"
          /\ Len(after) = Len(before) + 1
          /\ after[Len(after)].source = run[p].code
          /\ after[Len(after)].outputs = run[p].outputs
          /\ after[Len(after)].execution_count = run[p].executionCount
          /\ after[Len(after)].cell_type = "code"
          /\ \A i \in 1..Len(before) : after[i] = before[i]
          /\ run'[p].notebookModel.type = "notebook"

C13_AppendCell == [][C13_AppendStep]_vars

C13_Witness ==
  LET cells == run["p1"].notebookModel.cells
  IN  /\ run["p1"].pc = "appended"
      /\ Len(cells) = 3
      /\ cells[1] = NewCell(Str(<<"print(x)">>), <<OutputOf(Stream(<<"a">>))>>, Num(<<"3">>), 8)
      /\ cells[2] = NewCell(Str(<<"x = 1">>), <<>>, Null, 7)
      /\ cells[3].source = Str(<<"x = 1">>)
      /\ cells[3].outputs = <<OutputOf(Stream(<<"a">>))>>
      /\ cells[3].execution_count = Num(<<"3">>)

(***************************************************************************)
(* C14: appendCell on a document whose type is not "notebook" fails with    *)
(* the type-mismatch error "Model is not a notebook" and leaves the         *)
(* document, its cell sequence included, as it was.                         *)
(***************************************************************************)
C14_MismatchStep ==
  \A p \in Procs :
    (run[p].pc = "append" /\ run[p].notebookModel.type # "notebook") =>
      /\ run'[p].pc = "thrown"
      /\ run'[p].error = <<"Model is not a notebook">>
      /\ run'[p].notebookModel = run[p].notebookModel

C14_TypeMismatch == [][C14_MismatchStep]_vars

C14_Witness ==
  /\ run["p1"].pc = "thrown"
  /\ run["p1"].error = <<"Model is not a notebook">>
  /\ run["p1"].notebookModel.type = "file"
  /\ Len(run["p1"].notebookModel.cells) = 2

(***************************************************************************)
(* createDirectoryStructure (EnsureSpec).                                   *)
(***************************************************************************)
\* the directories of the notebook path of an invocation, outermost first
DirSegments(r) == Segments(PosixDirname(notebookPath(r)))

\* createDirectoryStructure has returned without error
Ensured(r) == r.pc = "gcn_list"

(***************************************************************************)
(* C15: ensurePath is idempotent.  A second call with the same path, issued *)
(* right after a first one that returned without error, sends no creation   *)
(* request (neither newUntitled nor rename) and leaves the store unchanged, *)
(* for paths of one or more segments and every store.                       *)
(***************************************************************************)
C15_SecondCallStep ==
  \A p \in Procs :
    HasStep(run[p].trace, SecondCall) =>
      /\ directories' = directories
      /\ notebooks' = notebooks
      /\ run'[p].pc \notin {"cds_new", "cds_rename"}

C15_EnsurePathIdempotent == [][C15_SecondCallStep]_vars

(***************************************************************************)
(* C16: ensurePath postcondition.  When ensurePath has returned without     *)
(* error, every prefix of the path is a directory of the store: the whole   *)
(* nested chain exists, also when two or more segments were missing.        *)
(***************************************************************************)
C16_NestedChainExists ==
  \A p \in Procs :
    Ensured(run[p]) =>
      \A k \in 1..Len(DirSegments(run[p])) :
        SubSeq(DirSegments(run[p]), 1, k) \in directories

(***************************************************************************)
(* C17: the stored notebook changes only at the persist step.  A step       *)
(* changes the notebooks of the store only when it is the save request of   *)
(* an invocation being served; the resolver writes no notebook; and of an   *)
(* invocation that has not passed its save, failed ones included, no save   *)
(* was served: the notebooks are the ones stored when it was called.        *)
(***************************************************************************)
C17_OnlySaveWrites ==
  notebooks' # notebooks =>
    \E p \in Procs :
      /\ run[p].pc = "save"
      /\ run'[p].pc = "done" /\ ~run'[p].failed
      /\ notebooks' = [q \in DOMAIN notebooks \cup {Segments(notebookPath(run[p]))} |->
                         IF q = Segments(notebookPath(run[p])) THEN run[p].notebookModel
                         ELSE notebooks[q]]

\* the saves served are those of the invocations before this one
C17_NoSaveBeforePersist ==
  \A p \in Procs :
    LET r == run[p]
    IN  (r.pc # "idle" /\ ~Saved(r)) =>
          /\ Len(history.saves) = history.calls - 1
          /\ history.calls = 1 => notebooks = <<>>
          /\ r.pc # "save" => (r.failed <=> r.pc = "done")

C17_PersistOnly == []C17_NoSaveBeforePersist /\ [][C17_OnlySaveWrites]_vars

C17_Witness ==
  /\ run["p1"].pc = "done"
  /\ run["p1"].error = <<"toolOutputCallback failed">>
  /\ run["p1"].notebookModel = getNewNotebookModel(<<"c2", ".ipynb">>, <<"u1", Sep, "c2", ".ipynb">>)
  /\ HasStep(run["p1"].trace, "kernel.requestExecute")
  /\ notebooks = <<>>

(***************************************************************************)
(* C18: step order within one run.  The steps of an invocation are taken    *)
(* one after the other in the order notebook resolution, session            *)
(* resolution, code submission and execution, rendering, output callback,   *)
(* append, save, return: session resolution begins with the notebook        *)
(* resolved, rendering begins with the execution completed, the callback is *)
(* invoked exactly once, with the rendered links, between rendering and     *)
(* append, and the result text is returned with the save served.            *)
(***************************************************************************)
\* the place of a logged step in the order of _call
Phase(step) ==
  CASE step \in {"contents.get", "contents.newUntitled", "contents.rename"} -> 1
    [] step \in {"sessions.ready", "sessions.findByPath", "sessions.connectTo",
                 "sessions.startNew"} -> 2
    [] step = "kernel.requestExecute" -> 3
    [] step = "saveImages" -> 4
    [] step = "toolOutputCallback" -> 5
    [] step = "addCellsToNotebook" -> 6
    [] step = "contents.save" -> 7
    [] OTHER -> 0

HasPhase(trace, n) == \E i \in 1..Len(trace) : Phase(trace[i]) = n

TailOfSuccess ==
  <<"kernel.requestExecute", "saveImages", "toolOutputCallback", "addCellsToNotebook",
    "contents.save">>

C18_StepOrder ==
  \A p \in Procs :
    LET r == run[p]
        t == r.trace
        n == Len(t)
    IN  /\ \A i \in 1..n : \A j \in i..n : Phase(t[i]) <= Phase(t[j])
        /\ \A i \in 1..n : \A j \in 1..n : (Phase(t[i]) >= 3 /\ t[i] = t[j]) => i = j
        /\ \A k \in 2..7 : HasPhase(t, k) => HasPhase(t, k - 1)
        /\ HasPhase(t, 2) => r.notebookModel.type = "notebook"
        /\ HasPhase(t, 3) => r.session.id # 0
        /\ HasPhase(t, 4) => (r.executed /\ ~r.pending.active)
        /\ HasPhase(t, 5) <=> r.callbacks # <<>>
        /\ HasPhase(t, 5) => r.callbacks = <<r.markdownImages>>
        /\ HasPhase(t, 6) =>
             /\ r.notebookModel.cells # <<>>
             /\ Last(r.notebookModel.cells).source = r.code
        /\ Saved(r) =>
             /\ n >= 7
             /\ SubSeq(t, n - 4, n) = TailOfSuccess
             /\ r.ret.value = r.result
             /\ history.saves # <<>>
             /\ Last(history.saves) = Last(r.notebookModel.cells).id
        /\ r.pc = "save" => (n >= 7 /\ SubSeq(t, n - 4, n) = TailOfSuccess /\ r.ret = NoReturn)

C18_Witness ==
  /\ Saved(run["p1"])
  /\ run["p1"].trace =
       <<"contents.get", "contents.newUntitled", "contents.rename", "contents.get",
         "sessions.ready", "sessions.findByPath", "sessions.startNew",
         "kernel.requestExecute", "saveImages", "toolOutputCallback",
         "addCellsToNotebook", "contents.save">>
  /\ Len(run["p1"].markdownImages) = 1
  /\ run["p1"].callbacks = <<run["p1"].markdownImages>>

(***************************************************************************)
(* C19: event delivery.  The handler is installed in the step that submits  *)
(* the code, so every event is emitted to an installed handler; every event *)
(* emitted is in the output list exactly once, at its place in emission     *)
(* order, tagged with its kind, whatever the kind; and when execute has     *)
(* returned no handling of an event is pending and the list is complete.    *)
(***************************************************************************)
C19_EventDelivery ==
  \A p \in Procs :
    LET r == run[p]
    IN  /\ HasStep(r.trace, "kernel.requestExecute") <=> r.pc \in {"executing", "save"}
                                                         \/ r.executed
                                                         \/ r.error = <<"Canceled future for execute_request">>
        /\ r.emitted # <<>> => HasStep(r.trace, "kernel.requestExecute")
        /\ r.pending.active => r.pc = "executing"
        /\ Len(r.outputs) = Len(r.emitted)
        /\ \A i \in 1..Len(r.emitted) :
             /\ r.outputs[i] = OutputOf(r.emitted[i])
             /\ r.outputs[i].output_type = r.emitted[i].header.msg_type
        /\ r.executed =>
             /\ ~r.pending.active
             /\ r.outputs = [i \in 1..Len(r.emitted) |-> OutputOf(r.emitted[i])]

C19_Witness ==
  /\ run["p1"].executed
  /\ run["p1"].emitted = <<Status("idle"), Stream(<<"a">>), Status("idle")>>
  /\ Len(run["p1"].outputs) = 3
  /\ run["p1"].outputs[1] = [output_type |-> "status", execution_state |-> "idle"]
  /\ run["p1"].outputs[2].output_type = "stream"

(***************************************************************************)
(* C20: a session without a kernel makes execute fail before anything is    *)
(* submitted.  The invocation has returned "Error executing code: Kernel is *)
(* not defined"; no code was sent to a kernel, no handler was registered    *)
(* (no event was delivered), the output callback was not invoked, no cell   *)
(* was appended and no notebook was saved.                                  *)
(***************************************************************************)
\* the session the invocation resolved has no kernel attached
Kernelless(r) == r.session.id # 0 /\ ~r.session.kernel

C20_NoKernelFailsFast ==
  \A p \in Procs :
    LET r == run[p]
    IN  Kernelless(r) =>
          /\ r.pc = "done"
          /\ r.ret = [kind |-> "return",
                      value |-> <<"Error executing code: ", "Kernel is not defined">>]
          /\ ~HasStep(r.trace, "kernel.requestExecute")
          /\ r.emitted = <<>> /\ r.outputs = <<>> /\ ~r.pending.active /\ ~r.executed
          /\ r.callbacks = <<>>
          /\ ~HasStep(r.trace, "saveImages")
          /\ ~HasStep(r.trace, "addCellsToNotebook")
          /\ ~HasStep(r.trace, "contents.save")
          /\ Len(history.saves) = history.calls - 1
          /\ images = {}

C20_Witness ==
  /\ Kernelless(run["p1"])
  /\ run["p1"].pc = "done"
  /\ HasStep(run["p1"].trace, "sessions.connectTo")
  /\ run["p1"].ret.value = <<"Error executing code: ", "Kernel is not defined">>
  /\ Len(StoredCells(<<"u1">>, <<"c1">>)) = 1

(***************************************************************************)
(* C21: notebook and kernel stay consistent under sequential use.  Between  *)
(* the invocations of a serial history, the notebook stored for a           *)
(* conversation holds one cell for every code the kernel executed to        *)
(* completion for it, in execution order, so as many cells as completed     *)
(* executions, also when a step after the execution (rendering, output      *)
(* callback, save) failed.                                                  *)
(***************************************************************************)
C21_NotebookMatchesKernel ==
  (\A p \in Procs : run[p].pc = "idle") =>
    \A userId \in Users, conversationId \in Convs :
      /\ Len(StoredCells(userId, conversationId))
           = Cardinality(Indices(history.executed, userId, conversationId))
      /\ Sources(StoredCells(userId, conversationId))
           = CodesOf(history.executed, userId, conversationId)

====
